---------------------------- MODULE Spec2Model ----------------------------
(***************************************************************************)
(* A model of pyravendb/data/indexes.py: the canonical enumerations, the   *)
(* IndexFieldOptions record, the IndexDefinition aggregate and the         *)
(* IndexQuery descriptor.                                                  *)
(*                                                                         *)
(* Python values are tagged records (field k is the Python type), so that  *)
(* None, booleans, strings, enumeration members and durations can be told  *)
(* apart and so that Python's truth test can be modelled as the            *)
(* interpreter computes it.  Objects are their attribute dictionaries.     *)
(***************************************************************************)
EXTENDS Integers, Sequences, FiniteSets, TLC

VARIABLES
    fo,        \* the IndexFieldOptions object under construction / use
    foRet,     \* what the last call on fo returned
    rendered,  \* the last str(member) evaluation: member and text
    idx,       \* the IndexDefinition object
    idxRet,    \* what the last call on idx returned or raised
    hist,      \* history: what idx was constructed from, and whether it was reassigned
    q,         \* the IndexQuery object
    qRet,      \* what the last call on q returned
    given,     \* history: the arguments q was constructed with
    assigned   \* history: the values assigned to q.page_size, in order

vars == <<fo, foRet, rendered, idx, idxRet, hist, q, qRet, given, assigned>>

---------------------------------------------------------------------------
(* Bounds of the model *)

\* number of distinct map statements a caller may draw from; a list passed
\* as index_map holds at most this many entries, repeats included
MaxStatements == 2
\* number of page_size assignments followed on one query
MaxAssign == 2

---------------------------------------------------------------------------
(* Python values *)

None == [k |-> "None"]
PyBool(b) == [k |-> "bool", b |-> b]
PyInt(i) == [k |-> "int", i |-> i]
PyStr(s) == [k |-> "str", s |-> s]
PyList(items) == [k |-> "list", items |-> items]
PyTuple(items) == [k |-> "tuple", items |-> items]
PyDict(d) == [k |-> "dict", d |-> d]
\* timedelta, normalised to whole seconds
timedelta(seconds) == [k |-> "timedelta", seconds |-> seconds]
EnumMember(cls, name, value) == [k |-> "enum", cls |-> cls, name |-> name, value |-> value]

\* the argument was not passed at all
Omitted == [k |-> "omitted"]
\* no object constructed yet / no call made yet
NoObject == [k |-> "no object"]
NoRet == [op |-> "none"]

EmptyDict == [key \in {} |-> None]

\* bool(v) as the interpreter computes it: None, False, 0, "", empty
\* containers and a zero timedelta are false; an Enum member (no __bool__,
\* no mixed-in type) is always true
Truthy(v) ==
    CASE v.k = "None" -> FALSE
      [] v.k = "bool" -> v.b
      [] v.k = "int" -> v.i # 0
      [] v.k = "str" -> Len(v.s) > 0
      [] v.k = "enum" -> TRUE
      [] v.k = "timedelta" -> v.seconds # 0
      [] v.k = "dict" -> DOMAIN v.d # {}
      [] v.k \in {"list", "tuple"} -> Len(v.items) > 0

\* str.startswith
startswith(s, prefix) ==
    /\ Len(s) >= Len(prefix)
    /\ SubSeq(s, 1, Len(prefix)) = prefix

\* kwargs.get(key, default)
KwGet(kwargs, key, default) ==
    IF key \in DOMAIN kwargs THEN kwargs[key] ELSE default

\* a keyword-argument dictionary: the keys of r that were passed
Kwargs(r) == [key \in {x \in DOMAIN r : r[x] # Omitted} |-> r[key]]

---------------------------------------------------------------------------
(* The enumerations *)

IndexLockMode ==
    { EnumMember("IndexLockMode", "unlock", "Unlock"),
      EnumMember("IndexLockMode", "locked_ignore", "LockedIgnore"),
      EnumMember("IndexLockMode", "locked_error", "LockedError"),
      EnumMember("IndexLockMode", "side_by_side", "SideBySide") }

IndexPriority ==
    { EnumMember("IndexPriority", "low", "Low"),
      EnumMember("IndexPriority", "normal", "Normal"),
      EnumMember("IndexPriority", "high", "High") }

SortOptions ==
    { EnumMember("SortOptions", "none", "None"),
      EnumMember("SortOptions", "str", "String"),
      EnumMember("SortOptions", "numeric", "Numeric") }

FieldIndexing ==
    { EnumMember("FieldIndexing", "no", "No"),
      EnumMember("FieldIndexing", "analyzed", "Analyzed"),
      EnumMember("FieldIndexing", "not_analyzed", "NotAnalyzed"),
      EnumMember("FieldIndexing", "default", "Default") }

FieldTermVector ==
    { EnumMember("FieldTermVector", "no", "No"),
      EnumMember("FieldTermVector", "yes", "Yes"),
      EnumMember("FieldTermVector", "with_positions", "WithPositions"),
      EnumMember("FieldTermVector", "with_offsets", "WithOffsets"),
      EnumMember("FieldTermVector", "with_positions_and_offsets", "WithPositionsAndOffsets") }

FieldStorage ==
    { EnumMember("FieldStorage", "yes", "Yes"),
      EnumMember("FieldStorage", "no", "No") }

QueryOperator ==
    { EnumMember("QueryOperator", "OR", "OR"),
      EnumMember("QueryOperator", "AND", "AND") }

AllEnumMembers ==
    IndexLockMode \cup IndexPriority \cup SortOptions \cup FieldIndexing
        \cup FieldTermVector \cup FieldStorage \cup QueryOperator

\* the classes whose body defines __str__ as "return self.value"
DefinesStr ==
    {"IndexLockMode", "IndexPriority", "SortOptions", "FieldIndexing",
     "FieldTermVector", "FieldStorage"}

\* str(member): the class's own __str__ where it defines one, else the one
\* inherited from Enum, which gives "ClassName.member_name"
str(e) ==
    IF e.cls \in DefinesStr
    THEN PyStr(e.value)
    ELSE PyStr(e.cls \o "." \o e.name)

---------------------------------------------------------------------------
(* IndexFieldOptions *)

IndexFieldOptions__init__(sort_options, indexing, storage, suggestions, term_vector, analyzer) ==
    [sort_options |-> sort_options,
     indexing |-> indexing,
     storage |-> storage,
     suggestions |-> suggestions,
     term_vector |-> term_vector,
     analyzer |-> analyzer]

\* a variant that applies the truth test to suggestions as well, so that an
\* explicit False is lost
IndexFieldOptions_to_json_falsy_suggestions(self) ==
    [Analyzer |-> self.analyzer,
     Indexing |-> IF Truthy(self.indexing) THEN str(self.indexing) ELSE None,
     Sort |-> IF Truthy(self.sort_options) THEN str(self.sort_options) ELSE None,
     Spatial |-> None,
     Storage |-> IF Truthy(self.storage) THEN str(self.storage) ELSE None,
     Suggestions |-> IF Truthy(self.suggestions) THEN self.suggestions ELSE None,
     TermVector |-> IF Truthy(self.term_vector) THEN str(self.term_vector) ELSE None]

IndexFieldOptions_to_json(self) ==
    [Analyzer |-> self.analyzer,
     Indexing |-> IF Truthy(self.indexing) THEN str(self.indexing) ELSE None,
     Sort |-> IF Truthy(self.sort_options) THEN str(self.sort_options) ELSE None,
     Spatial |-> None,
     Storage |-> IF Truthy(self.storage) THEN str(self.storage) ELSE None,
     Suggestions |-> self.suggestions,
     TermVector |-> IF Truthy(self.term_vector) THEN str(self.term_vector) ELSE None]

\* the analyzer names a caller passes
Analyzers == {None, PyStr(""), PyStr("StandardAnalyzer")}
Suggestions == {None, PyBool(FALSE), PyBool(TRUE)}

Init ==
    /\ fo = NoObject
    /\ foRet = NoRet
    /\ rendered = NoRet
    /\ idx = NoObject
    /\ idxRet = NoRet
    /\ hist = NoObject
    /\ q = NoObject
    /\ qRet = NoRet
    /\ given = NoObject
    /\ assigned = <<>>

idxVars == <<idx, idxRet, hist>>
qVars == <<q, qRet, given, assigned>>
foVars == <<fo, foRet, rendered>>

\* fo = IndexFieldOptions(...)
NewIndexFieldOptions ==
    /\ fo = NoObject
    /\ \E sort_options \in SortOptions \cup {None},
          indexing \in FieldIndexing \cup {None},
          storage \in FieldStorage \cup {None},
          suggestions \in Suggestions,
          term_vector \in FieldTermVector \cup {None},
          analyzer \in Analyzers :
            fo' = IndexFieldOptions__init__(sort_options, indexing, storage,
                                            suggestions, term_vector, analyzer)
    /\ UNCHANGED <<foRet, rendered, idxVars, qVars>>

\* fo.to_json()
FieldToJson ==
    /\ fo # NoObject
    /\ foRet' = [op |-> "to_json", value |-> IndexFieldOptions_to_json(fo)]
    /\ UNCHANGED <<fo, rendered, idxVars, qVars>>

\* str(member), for a member of any of the seven enumerations
RenderEnum ==
    /\ \E e \in AllEnumMembers :
          rendered' = [op |-> "str", member |-> e, text |-> str(e)]
    /\ UNCHANGED <<fo, foRet, idxVars, qVars>>

NextFieldOptions == NewIndexFieldOptions \/ FieldToJson \/ RenderEnum

SpecFieldOptions == Init /\ [][NextFieldOptions]_vars

---------------------------------------------------------------------------
(* IndexDefinition *)

Return(value) == [outcome |-> "return", value |-> value]
Raise(exc) == [outcome |-> "raise", value |-> exc]

isinstance(v, cls) == v.k = cls

\* tuple(set(xs)): the distinct items of xs, in the order the set happens to
\* iterate them (string hashing is seeded per process: any order)
tuple_of_set(xs) ==
    LET S == {xs.items[i] : i \in 1..Len(xs.items)}
    IN  {PyTuple(t) : t \in {u \in [1..Cardinality(S) -> S] :
                                \A i, j \in 1..Cardinality(S) : u[i] = u[j] => i = j}}

\* the objects IndexDefinition(name, index_map, configuration, **kwargs)
\* may construct, one for each iteration order of set(index_map)
IndexDefinition__init__(name, index_map, configuration, kwargs) ==
    { [name |-> name,
       configuration |-> IF configuration # None THEN configuration ELSE PyDict(EmptyDict),
       reduce |-> KwGet(kwargs, "reduce", None),
       index_id |-> KwGet(kwargs, "index_id", PyInt(0)),
       is_test_index |-> KwGet(kwargs, "is_test_index", PyBool(FALSE)),
       lock_mod |-> KwGet(kwargs, "lock_mod", None),
       priority |-> KwGet(kwargs, "priority", None),
       maps |-> maps,
       fields |-> KwGet(kwargs, "fields", PyDict(EmptyDict))]
      : maps \in IF isinstance(index_map, "str")
                 THEN {PyTuple(<<index_map>>)}
                 ELSE tuple_of_set(index_map) }

\* "needle in s" for strings
contains(s, needle) ==
    \E i \in 1..(Len(s) - Len(needle) + 1) : SubSeq(s, i, i + Len(needle) - 1) = needle

\* a variant that looks for "Auto/" anywhere in the name, not only in front
type_anywhere(self) ==
    IF Truthy(self.name) /\ contains(self.name.s, "Auto/")
    THEN IF Truthy(self.reduce)
         THEN PyStr("AutoMap" \o "Reduce")
         ELSE PyStr("AutoMap")
    ELSE IF Truthy(self.reduce)
         THEN PyStr("MapReduce")
         ELSE PyStr("Map")

\* the property IndexDefinition.type
type(self) ==
    IF Truthy(self.name) /\ startswith(self.name.s, "Auto/")
    THEN IF Truthy(self.reduce)
         THEN PyStr("AutoMap" \o "Reduce")
         ELSE PyStr("AutoMap")
    ELSE IF Truthy(self.reduce)
         THEN PyStr("MapReduce")
         ELSE PyStr("Map")

\* a variant that tests "reduce is not None" instead of its truth value
is_map_reduce_not_none(self) ==
    IF self.reduce # None THEN PyBool(TRUE) ELSE PyBool(FALSE)

\* the property IndexDefinition.is_map_reduce
is_map_reduce(self) ==
    IF Truthy(self.reduce) THEN PyBool(TRUE) ELSE PyBool(FALSE)

\* a variant that returns the last item of the tuple, not the first
map_last(self) ==
    IF ~isinstance(self.maps, "str")
    THEN IF Len(self.maps.items) = 0
         THEN Raise("IndexError")
         ELSE Return(self.maps.items[Len(self.maps.items)])
    ELSE Return(self.maps)

\* the getter of the property IndexDefinition.map: self.maps is a tuple, so
\* it is self.maps[0], which raises IndexError on an empty tuple
map(self) ==
    IF ~isinstance(self.maps, "str")
    THEN IF Len(self.maps.items) = 0
         THEN Raise("IndexError")
         ELSE Return(self.maps.items[1])
    ELSE Return(self.maps)

\* the setter of the property IndexDefinition.map: self.maps is a tuple,
\* which has neither pop nor add, so either branch raises AttributeError
\* before anything is assigned
map_setter(self, value) ==
    IF Len(self.maps.items) # 0
    THEN [self |-> self, result |-> Raise("AttributeError")]
    ELSE [self |-> self, result |-> Raise("AttributeError")]

\* a variant that serializes an empty fields dictionary as null
IndexDefinition_to_json_null_fields(self) ==
    [Configuration |-> self.configuration,
     Fields |-> IF Cardinality(DOMAIN self.fields.d) > 0
                THEN PyDict([key \in DOMAIN self.fields.d |->
                                IndexFieldOptions_to_json(self.fields.d[key])])
                ELSE None,
     IndexId |-> self.index_id,
     IsTestIndex |-> self.is_test_index,
     LockMode |-> IF Truthy(self.lock_mod) THEN str(self.lock_mod) ELSE None,
     Maps |-> self.maps,
     Name |-> self.name,
     Reduce |-> self.reduce,
     OutputReduceToCollection |-> None,
     Priority |-> IF Truthy(self.priority) THEN str(self.priority) ELSE None,
     Type |-> type(self)]

IndexDefinition_to_json(self) ==
    [Configuration |-> self.configuration,
     Fields |-> IF Cardinality(DOMAIN self.fields.d) > 0
                THEN PyDict([key \in DOMAIN self.fields.d |->
                                IndexFieldOptions_to_json(self.fields.d[key])])
                ELSE self.fields,
     IndexId |-> self.index_id,
     IsTestIndex |-> self.is_test_index,
     LockMode |-> IF Truthy(self.lock_mod) THEN str(self.lock_mod) ELSE None,
     Maps |-> self.maps,
     Name |-> self.name,
     Reduce |-> self.reduce,
     OutputReduceToCollection |-> None,
     Priority |-> IF Truthy(self.priority) THEN str(self.priority) ELSE None,
     Type |-> type(self)]

\* the inputs a caller draws from
Names ==
    { PyStr(""), PyStr("Auto"), PyStr("Auto/"), PyStr("Auto/Orders/ByCompany"),
      PyStr("Orders/ByCompany"), PyStr("Orders/Auto/ByCompany") }
Reduces == { PyStr(""), PyStr("from r in results group r by r.Company") }
Statements == { PyStr("m" \o ToString(i)) : i \in 1..MaxStatements }
IndexMaps ==
    Statements \cup
    UNION { {PyList(l) : l \in [1..n -> Statements]} : n \in 0..MaxStatements }
FieldDicts ==
    { PyDict([f \in {"Company", "Total"} |->
        IF f = "Company"
        THEN IndexFieldOptions__init__(None, EnumMember("FieldIndexing", "analyzed", "Analyzed"),
                                       None, PyBool(FALSE), None, PyStr("StandardAnalyzer"))
        ELSE IndexFieldOptions__init__(EnumMember("SortOptions", "numeric", "Numeric"), None,
                                       EnumMember("FieldStorage", "yes", "Yes"), None, None, None)]) }
\* the pass-through attributes: all left out, or all given
PassThrough ==
    { [configuration |-> None, index_id |-> Omitted, is_test_index |-> Omitted],
      [configuration |-> PyDict([o \in {"Indexing.MapTimeoutInSec"} |-> PyStr("30")]),
       index_id |-> PyInt(7), is_test_index |-> PyBool(TRUE)] }

\* idx = IndexDefinition(name, index_map, configuration, **kwargs)
NewIndexDefinition ==
    /\ idx = NoObject
    /\ \E name \in Names, index_map \in IndexMaps, pass \in PassThrough,
          reduce \in Reduces \cup {Omitted},
          lock_mod \in IndexLockMode \cup {Omitted},
          priority \in IndexPriority \cup {Omitted},
          fields \in FieldDicts \cup {Omitted} :
            /\ idx' \in IndexDefinition__init__(name, index_map, pass.configuration,
                            Kwargs([reduce |-> reduce, index_id |-> pass.index_id,
                                    is_test_index |-> pass.is_test_index,
                                    lock_mod |-> lock_mod, priority |-> priority,
                                    fields |-> fields]))
            /\ hist' = [from_str |-> isinstance(index_map, "str"),
                        statements |-> IF isinstance(index_map, "str") THEN {index_map}
                                       ELSE {index_map.items[i] : i \in 1..Len(index_map.items)},
                        reassigned |-> FALSE]
    /\ idxRet' = NoRet
    /\ UNCHANGED <<foVars, qVars>>

\* idx.name = value
SetName ==
    /\ idx # NoObject
    /\ \E value \in Names : idx' = [idx EXCEPT !.name = value]
    /\ hist' = [hist EXCEPT !.reassigned = TRUE]
    /\ idxRet' = NoRet
    /\ UNCHANGED <<foVars, qVars>>

\* idx.reduce = value
SetReduce ==
    /\ idx # NoObject
    /\ \E value \in Reduces \cup {None} : idx' = [idx EXCEPT !.reduce = value]
    /\ hist' = [hist EXCEPT !.reassigned = TRUE]
    /\ idxRet' = NoRet
    /\ UNCHANGED <<foVars, qVars>>

\* idx.type
GetType ==
    /\ idx # NoObject
    /\ idxRet' = [op |-> "type"] @@ Return(type(idx))
    /\ UNCHANGED <<idx, hist, foVars, qVars>>

\* idx.is_map_reduce
GetIsMapReduce ==
    /\ idx # NoObject
    /\ idxRet' = [op |-> "is_map_reduce"] @@ Return(is_map_reduce(idx))
    /\ UNCHANGED <<idx, hist, foVars, qVars>>

\* idx.map
GetMap ==
    /\ idx # NoObject
    /\ idxRet' = [op |-> "map"] @@ map(idx)
    /\ UNCHANGED <<idx, hist, foVars, qVars>>

\* idx.map = value
SetMap ==
    /\ idx # NoObject
    /\ \E value \in Statements :
          LET r == map_setter(idx, value) IN
          /\ idx' = r.self
          /\ idxRet' = [op |-> "map.setter", arg |-> value] @@ r.result
    /\ UNCHANGED <<hist, foVars, qVars>>

\* idx.to_json()
IndexToJson ==
    /\ idx # NoObject
    /\ idxRet' = [op |-> "to_json"] @@ Return(IndexDefinition_to_json(idx))
    /\ UNCHANGED <<idx, hist, foVars, qVars>>

NextIndexDefinition ==
    \/ NewIndexDefinition
    \/ SetName
    \/ SetReduce
    \/ GetType
    \/ GetIsMapReduce
    \/ GetMap
    \/ SetMap
    \/ IndexToJson

SpecIndexDefinition == Init /\ [][NextIndexDefinition]_vars

---------------------------------------------------------------------------
(* IndexQuery *)

\* the page size a new query starts with
DefaultPageSize == 128
\* the minutes of the timeout a waiting query gets when none was given
DefaultWaitMinutes == 15

\* the attribute dictionary IndexQuery(query, total_size, skipped_results,
\* default_operator, **kwargs) constructs; __page_size_set is stored under
\* its class-private (mangled) name
IndexQuery__init__(query, total_size, skipped_results, default_operator, kwargs) ==
    LET wait == KwGet(kwargs, "wait_for_non_stale_results", PyBool(FALSE))
        timeout == KwGet(kwargs, "wait_for_non_stale_results_timeout", None)
    IN  [query |-> query,
         total_size |-> total_size,
         skipped_results |-> skipped_results,
         _page_size |-> PyInt(DefaultPageSize),
         _IndexQuery__page_size_set |-> PyBool(FALSE),
         default_operator |-> default_operator,
         sort_hints |-> KwGet(kwargs, "sort_hints", PyDict(EmptyDict)),
         sort_fields |-> KwGet(kwargs, "sort_fields", PyDict(EmptyDict)),
         fetch |-> KwGet(kwargs, "fetch", PyList(<<>>)),
         wait_for_non_stale_results |-> wait,
         wait_for_non_stale_results_timeout |->
            IF Truthy(wait) /\ ~Truthy(timeout)
            THEN timedelta(DefaultWaitMinutes * 60)
            ELSE timeout]

\* the getter of the property IndexQuery.page_size
page_size(self) == self._page_size

\* a variant that marks the page size as set only when the value differs
\* from the one held
page_size_setter_if_changed(self, value) ==
    [self EXCEPT !._page_size = value,
                 !._IndexQuery__page_size_set =
                     IF value # self._page_size THEN PyBool(TRUE) ELSE @]

\* the setter of the property IndexQuery.page_size
page_size_setter(self, value) ==
    [self EXCEPT !._page_size = value,
                 !._IndexQuery__page_size_set = PyBool(TRUE)]

\* the inputs a caller draws from
Queries == { PyStr(""), PyStr("Company:companies/1") }
WaitFlags == { Omitted, PyBool(FALSE), PyBool(TRUE) }
Timeouts ==
    { Omitted, None, timedelta(0), timedelta(5), timedelta(DefaultWaitMinutes * 60),
      timedelta(1800) }
PageSizes == { PyInt(1), PyInt(DefaultPageSize), PyInt(2 * DefaultPageSize) }

\* q = IndexQuery(query, default_operator=..., **kwargs)
NewIndexQuery ==
    /\ q = NoObject
    /\ \E query \in Queries, default_operator \in QueryOperator \cup {None},
          wait \in WaitFlags, timeout \in Timeouts :
            /\ q' = IndexQuery__init__(query, PyInt(0), PyInt(0), default_operator,
                        Kwargs([wait_for_non_stale_results |-> wait,
                                wait_for_non_stale_results_timeout |-> timeout]))
            /\ given' = [wait_for_non_stale_results |-> wait,
                         wait_for_non_stale_results_timeout |-> timeout]
    /\ qRet' = NoRet
    /\ UNCHANGED <<assigned, foVars, idxVars>>

\* q.page_size = value
SetPageSize ==
    /\ q # NoObject
    /\ Len(assigned) < MaxAssign
    /\ \E value \in PageSizes :
          /\ q' = page_size_setter(q, value)
          /\ assigned' = Append(assigned, value)
    /\ qRet' = NoRet
    /\ UNCHANGED <<given, foVars, idxVars>>

\* q.page_size
GetPageSize ==
    /\ q # NoObject
    /\ qRet' = [op |-> "page_size", value |-> page_size(q)]
    /\ UNCHANGED <<q, given, assigned, foVars, idxVars>>

NextIndexQuery == NewIndexQuery \/ SetPageSize \/ GetPageSize

SpecIndexQuery == Init /\ [][NextIndexQuery]_vars

---------------------------------------------------------------------------
(* Properties of the enumerations and of IndexFieldOptions *)

\* the canonical wire token of an optional enumeration attribute: null when
\* the attribute is unset, the member's value otherwise
CanonicalOrNull(v) == IF v = None THEN None ELSE PyStr(v.value)

\* C4: rendering any member of the seven enumerations to a string gives
\* exactly its canonical wire token, and no other member of the same
\* enumeration renders to the same string.
C4_RenderIsCanonicalToken ==
    rendered.op = "str" =>
        /\ rendered.text = PyStr(rendered.member.value)
        /\ \A other \in AllEnumMembers :
              (other.cls = rendered.member.cls /\ other # rendered.member)
                  => str(other) # rendered.text

\* C5: to_json of an IndexFieldOptions always has exactly the seven keys;
\* an unset attribute is null, a set enumeration attribute is its canonical
\* string, Suggestions and Analyzer pass through as given, Spatial is null.
C5_FieldOptionsJson ==
    foRet.op = "to_json" =>
        LET j == foRet.value IN
        /\ DOMAIN j = {"Analyzer", "Indexing", "Sort", "Spatial", "Storage",
                       "Suggestions", "TermVector"}
        /\ j.Analyzer = fo.analyzer
        /\ j.Indexing = CanonicalOrNull(fo.indexing)
        /\ j.Sort = CanonicalOrNull(fo.sort_options)
        /\ j.Spatial = None
        /\ j.Storage = CanonicalOrNull(fo.storage)
        /\ j.Suggestions = fo.suggestions
        /\ j.TermVector = CanonicalOrNull(fo.term_vector)

\* a serialized record whose set members are the ones named "no"/"none",
\* whose suggestions flag is an explicit False and whose other attributes
\* are unset
C5_Witness ==
    /\ foRet.op = "to_json"
    /\ fo.sort_options = EnumMember("SortOptions", "none", "None")
    /\ fo.indexing = EnumMember("FieldIndexing", "no", "No")
    /\ fo.storage = EnumMember("FieldStorage", "no", "No")
    /\ fo.suggestions = PyBool(FALSE)
    /\ fo.term_vector = None
    /\ fo.analyzer = None
    /\ foRet.value.Sort = PyStr("None")
    /\ foRet.value.Indexing = PyStr("No")
    /\ foRet.value.Suggestions = PyBool(FALSE)
    /\ foRet.value.TermVector = None

---------------------------------------------------------------------------
(* Properties of IndexDefinition *)

\* the two booleans of the classification table
IsAuto(name) == name # None /\ startswith(name.s, "Auto/")
HasReduce(reduce) == reduce # None /\ reduce # PyStr("")

TypeTable(is_auto, has_reduce) ==
    CASE ~is_auto /\ ~has_reduce -> PyStr("Map")
      [] ~is_auto /\ has_reduce -> PyStr("MapReduce")
      [] is_auto /\ ~has_reduce -> PyStr("AutoMap")
      [] is_auto /\ has_reduce -> PyStr("AutoMapReduce")

ItemSet(t) == {t.items[i] : i \in 1..Len(t.items)}

\* C1: reading type returns exactly the table value of (is_auto,
\* has_reduce), with is_auto = the name starts with "Auto/" and has_reduce =
\* reduce is non-empty.
C1_TypeIsTableValue ==
    idxRet.op = "type" =>
        /\ idxRet.outcome = "return"
        /\ idxRet.value = TypeTable(IsAuto(idx.name), HasReduce(idx.reduce))

\* type read on a definition named exactly "Auto/" that has a reduce
C1_Witness ==
    /\ idxRet.op = "type"
    /\ idx.name = PyStr("Auto/")
    /\ HasReduce(idx.reduce)
    /\ idxRet.value = PyStr("AutoMapReduce")

\* C2: setting the map accessor to v completes without failure and leaves
\* the map statements equal to exactly {v}.
C2_SetMapReplacesAll ==
    idxRet.op = "map.setter" =>
        /\ idxRet.outcome = "return"
        /\ ItemSet(idx.maps) = {idxRet.arg}

\* C3: maps is non-empty in every constructed IndexDefinition (constructing
\* with zero map statements fails and produces no definition).
C3_MapsNeverEmpty ==
    idx # NoObject => Len(idx.maps.items) > 0

\* C8: after any reassignments of name and reduce, type, the Type key of
\* to_json() and is_map_reduce all reflect the current name and reduce.
C8_DerivedFollowCurrent ==
    /\ idxRet.op = "type" =>
          idxRet.value = TypeTable(IsAuto(idx.name), HasReduce(idx.reduce))
    /\ idxRet.op = "to_json" =>
          idxRet.value.Type = TypeTable(IsAuto(idx.name), HasReduce(idx.reduce))
    /\ idxRet.op = "is_map_reduce" =>
          idxRet.value = PyBool(HasReduce(idx.reduce))

\* is_map_reduce read after a reassignment that left reduce the empty string
\* on an auto-named definition
C8_Witness ==
    /\ hist # NoObject
    /\ hist.reassigned
    /\ idxRet.op = "is_map_reduce"
    /\ idx.reduce = PyStr("")
    /\ idx.name = PyStr("Auto/Orders/ByCompany")
    /\ idxRet.value = PyBool(FALSE)

\* C9 as stated: the map accessor returns the one statement when exactly one
\* exists and fails with AmbiguousMapAccess when more than one is present.
C9_AmbiguousMapFails ==
    idxRet.op = "map" =>
        /\ Len(idx.maps.items) = 1 =>
              idxRet.outcome = "return" /\ idxRet.value = idx.maps.items[1]
        /\ Len(idx.maps.items) > 1 =>
              idxRet.outcome = "raise" /\ idxRet.value = "AmbiguousMapAccess"

\* C9 as amended: the map accessor returns the one statement when exactly
\* one exists; when more than one is present it does not fail but returns
\* the first item of the maps tuple, one of the statements held.
C9_MapReturnsFirst ==
    idxRet.op = "map" =>
        /\ Len(idx.maps.items) = 1 =>
              idxRet.outcome = "return" /\ hist.statements = {idxRet.value}
        /\ Len(idx.maps.items) > 1 =>
              /\ idxRet.outcome = "return"
              /\ idxRet.value = idx.maps.items[1]
              /\ idxRet.value \in hist.statements

\* the map accessor read on a definition that holds two statements
C9_Witness ==
    /\ idxRet.op = "map"
    /\ Len(idx.maps.items) > 1
    /\ idxRet.outcome = "return"

\* C10: to_json of an IndexDefinition has exactly the eleven keys; Fields
\* maps each field name to that field's to_json() and is the empty mapping
\* when no fields were set; LockMode and Priority are canonical strings or
\* null; Maps holds each distinct statement once; Reduce is the reduce
\* string or null; OutputReduceToCollection is null; Type is the
\* classification.
C10_IndexDefinitionJson ==
    idxRet.op = "to_json" =>
        LET j == idxRet.value IN
        /\ DOMAIN j = {"Configuration", "Fields", "IndexId", "IsTestIndex",
                       "LockMode", "Maps", "Name", "Reduce",
                       "OutputReduceToCollection", "Priority", "Type"}
        /\ j.Configuration = idx.configuration
        /\ j.Fields # None
        /\ j.Fields.k = "dict"
        /\ DOMAIN j.Fields.d = DOMAIN idx.fields.d
        /\ \A f \in DOMAIN idx.fields.d :
              j.Fields.d[f] = IndexFieldOptions_to_json(idx.fields.d[f])
        /\ j.IndexId = idx.index_id
        /\ j.IsTestIndex = idx.is_test_index
        /\ j.LockMode = CanonicalOrNull(idx.lock_mod)
        /\ j.Priority = CanonicalOrNull(idx.priority)
        /\ ItemSet(j.Maps) = hist.statements
        /\ Len(j.Maps.items) = Cardinality(hist.statements)
        /\ hist.from_str => Len(j.Maps.items) = 1
        /\ j.Name = idx.name
        /\ j.Reduce = idx.reduce
        /\ j.OutputReduceToCollection = None
        /\ j.Type = TypeTable(IsAuto(idx.name), HasReduce(idx.reduce))

\* the definition IndexDefinition("Orders/ByCompany", <one statement>),
\* serialized
C10_Witness ==
    /\ idxRet.op = "to_json"
    /\ hist.from_str
    /\ ~hist.reassigned
    /\ idx.name = PyStr("Orders/ByCompany")
    /\ idx.fields = PyDict(EmptyDict)
    /\ idx.lock_mod = None
    /\ idx.priority = EnumMember("IndexPriority", "high", "High")
    /\ idxRet.value.Type = PyStr("Map")
    /\ idxRet.value.Reduce = None
    /\ idxRet.value.Fields = PyDict(EmptyDict)
    /\ idxRet.value.LockMode = None
    /\ idxRet.value.Priority = PyStr("High")
    /\ Len(idxRet.value.Maps.items) = 1

---------------------------------------------------------------------------
(* Properties of IndexQuery *)

\* what the caller supplied for a keyword argument, None when left out
Supplied(v) == IF v = Omitted THEN None ELSE v

\* C6: after construction the timeout is exactly 15 minutes when the wait
\* flag is true and no explicit timeout was supplied; in every other case it
\* equals the value the caller supplied (any explicitly supplied duration
\* included), and it is absent when the flag is false and it was left out.
C6_TimeoutDefaultOnlyWhenMissing ==
    q # NoObject =>
        LET wait == Supplied(given.wait_for_non_stale_results) = PyBool(TRUE)
            timeout == Supplied(given.wait_for_non_stale_results_timeout)
        IN  q.wait_for_non_stale_results_timeout =
                IF wait /\ timeout = None THEN timedelta(15 * 60) ELSE timeout

\* the state part of C7
PageSizeFollowsAssignments ==
    q # NoObject =>
        /\ "_IndexQuery__page_size_set" \in DOMAIN q
        /\ q._IndexQuery__page_size_set = PyBool(Len(assigned) > 0)
        /\ qRet.op = "page_size" =>
              qRet.value = IF Len(assigned) = 0 THEN PyInt(128)
                           ELSE assigned[Len(assigned)]

===========================================================================
